---- MODULE Spec2Model ----
(***************************************************************************)
(* Model of export_data_from_prod_db.py: a Tk window (RdsExportUI) whose   *)
(* START EXPORT button spawns a worker thread (_export_worker) that copies *)
(* MySQL tables into a local SQLite file, table by table, page by page,    *)
(* reporting progress through progress_callback.                           *)
(*                                                                         *)
(* Fractions are exact rationals <<numerator, denominator>>; the Python    *)
(* floats they stand for are compared by cross-multiplication.  The source *)
(* connection is opened with autocommit=False (line 104) and never         *)
(* committed, so a run reads one snapshot of the source: mysql does not    *)
(* change during a behaviour.  Of the widgets only the START EXPORT        *)
(* button's state is kept; what the window displays is the sequence of     *)
(* progress_callback invocations recorded per worker.                      *)
(***************************************************************************)
EXTENDS Integers, Sequences, FiniteSets, TLC

VARIABLES
    creds,             \* all([DB_HOST, DB_USER, DB_PASSWORD, DB_NAME])
    TABLE_FIELDS,      \* table_fields.json: table -> allow-list of columns
    mysql,             \* source database: table -> sequence of rows
    schema,            \* source database: table -> its columns, in order
    sqlite,            \* destination files: path -> table -> NoTable or contents
    run_btn,           \* state of the START EXPORT button
    selected_db_path,  \* self.selected_db_path
    table_vars,        \* self.table_vars: table -> checkbox value
    thread,            \* worker threads: id -> locals of _export_worker/export_table
    resolved           \* last value returned by get_table_columns (SpecColumns)

vars == <<creds, TABLE_FIELDS, mysql, schema, sqlite, run_btn, selected_db_path,
          table_vars, thread, resolved>>

(***************************************************************************)
(* Bounds of the model.  CHUNK_SIZE is 1000 in the source (line 62) and    *)
(* the progress throttle is 50 (line 210); both are scaled down together   *)
(* with the table sizes so that multi-page tables fit the model.           *)
(***************************************************************************)
MaxRows == 3
CHUNK_SIZE == 2
PROGRESS_EVERY == 2
MaxColumns == 2

\* Two worker threads: the least number that can overlap.
Threads == {1, 2}

\* The tables of TABLES_TO_EXPORT the model keeps, in list order: one
\* without and one with an entry in TABLE_FILTERS.
TABLES_TO_EXPORT == <<"contacts", "remove_contacts">>

Tables == {TABLES_TO_EXPORT[i] : i \in 1..Len(TABLES_TO_EXPORT)}

\* TABLE_FILTERS: table -> the column and the values of its IN (...) predicate.
TABLE_FILTERS == [remove_contacts |-> [column |-> "removed_by_user_id", values |-> {106, 109}]]

\* Files the save dialog can return; the first is local_db_path.
Paths == {"prod_database_local_copy.db", "other.db"}

local_db_path == "prod_database_local_copy.db"

NoTable == [exists |-> FALSE, columns |-> <<>>, rows |-> <<>>]

----------------------------------------------------------------------------
(* Source data.  A cell is <<kind, payload>>, kind one of "int", "str",    *)
(* "bytes"; a row maps each column of its table to a cell.                 *)

\* The columns of the source tables of the export runs.
SourceColumns ==
    [contacts |-> <<"id", "name">>, remove_contacts |-> <<"id", "removed_by_user_id">>]

Users == <<106, 7, 109, 8>>

\* The i-th row of a source table.
SourceRow(table, i) ==
    IF table = "contacts"
    THEN [id |-> <<"int", i>>,
          name |-> IF i % 2 = 0 THEN <<"bytes", i>> ELSE <<"str", i>>]
    ELSE [id |-> <<"int", i>>,
          removed_by_user_id |-> <<"int", Users[((i - 1) % Len(Users)) + 1]>>]

SourceTable(table, n) == [i \in 1..n |-> SourceRow(table, i)]

----------------------------------------------------------------------------
(* Fractions *)

Frac(n, d) == <<n, d>>

FracLE(a, b) == a[1] * b[2] <= b[1] * a[2]

FracEq(a, b) == a[1] * b[2] = b[1] * a[2]

----------------------------------------------------------------------------
(* MySQL <> SQLite logic *)

\* fetch_table_count: SELECT COUNT(*) FROM `table` (no WHERE clause)
fetch_table_count(table) == Len(mysql[table])

\* Mutant: the allow-list filters the discovered columns, keeping source order.
ResolveColumns_source_order(fields, table, all_columns) ==
    IF table \in DOMAIN fields
    THEN SelectSeq(all_columns, LAMBDA c : \E i \in 1..Len(fields[table]) : fields[table][i] = c)
    ELSE all_columns

\* [c for c in allowed if c in all_columns], or all_columns
ResolveColumns(fields, table, all_columns) ==
    IF table \in DOMAIN fields
    THEN SelectSeq(fields[table], LAMBDA c : \E i \in 1..Len(all_columns) : all_columns[i] = c)
    ELSE all_columns

\* get_table_columns; schema[table] is the answer to SHOW COLUMNS FROM `table`
get_table_columns(table) == ResolveColumns(TABLE_FIELDS, table, schema[table])

\* The WHERE clause of a table, evaluated on a source row.
WhereClause(table, row) ==
    IF table \in DOMAIN TABLE_FILTERS
    THEN row[TABLE_FILTERS[table].column][2] \in TABLE_FILTERS[table].values
    ELSE TRUE

\* SELECT columns FROM `table` [WHERE ...]: the buffered result set.
SelectRows(table, columns) ==
    LET kept == SelectSeq(mysql[table], LAMBDA r : WhereClause(table, r))
    IN  [i \in 1..Len(kept) |-> [j \in 1..Len(columns) |-> kept[i][columns[j]]]]

\* v.decode('utf-8', errors='replace') if isinstance(v, (bytes, bytearray)) else v
\* Payloads 2, 6, 10, ... stand for byte strings that are not valid UTF-8, and
\* -1 for the text with the replacement character.
Convert(v) ==
    IF v[1] = "bytes"
    THEN <<"str", IF v[2] % 4 = 2 THEN -1 ELSE v[2]>>
    ELSE v

ConvertRow(r) == [j \in 1..Len(r) |-> Convert(r[j])]

ConvertBatch(rows) == [i \in 1..Len(rows) |-> ConvertRow(rows[i])]

\* recreate_sqlite_table: DROP TABLE IF EXISTS; CREATE TABLE (all TEXT)
recreate_sqlite_table(db, table, columns) ==
    [db EXCEPT ![table] = [exists |-> TRUE, columns |-> columns, rows |-> <<>>]]

\* DROP TABLE IF EXISTS alone (CREATE TABLE raised)
DropTable(db, table) == [db EXCEPT ![table] = NoTable]

\* executemany(insert_sql, batch); commit()
InsertBatch(db, table, batch) ==
    [db EXCEPT ![table].rows = @ \o batch]

----------------------------------------------------------------------------
(* progress_callback: one record per invocation, kept per worker.  idx is  *)
(* the position in selected_tables of the table being exported (0 outside  *)
(* the table loop).                                                        *)

progress_callback(log, fraction, message, idx) ==
    Append(log, [fraction |-> fraction, message |-> message, idx |-> idx])

\* Mutant: the notification of an empty table forgets table_weight.
ZeroRowsNotify_offset(log, tables_done, n) ==
    progress_callback(log, Frac(tables_done, n), "zero_rows", tables_done + 1)

\* Lines 166-169: the only notification of a table counted as empty.
ZeroRowsNotify(log, tables_done, n) ==
    progress_callback(log, Frac(tables_done + 1, n), "zero_rows", tables_done + 1)

\* Mutant: the final update is left out.
CompleteNotify_skipped(log) == log

\* Line 462: the final update of a run.
CompleteNotify(log) == progress_callback(log, Frac(1, 1), "complete", 0)

\* Mutant: table_progress is added to the offset without table_weight.
RowProgress_unweighted(log, rows_inserted, batch_len, total_rows, tables_done, n) ==
    LET counts == SelectSeq([i \in 1..batch_len |-> rows_inserted + i],
                            LAMBDA k : k % PROGRESS_EVERY = 0)
    IN  log \o [j \in 1..Len(counts) |->
                  [fraction |-> Frac(tables_done * total_rows + n * counts[j], n * total_rows),
                   message |-> "rows",
                   idx |-> tables_done + 1]]

\* Lines 208-213: one callback for every PROGRESS_EVERY-th inserted row.
RowProgress(log, rows_inserted, batch_len, total_rows, tables_done, n) ==
    LET counts == SelectSeq([i \in 1..batch_len |-> rows_inserted + i],
                            LAMBDA k : k % PROGRESS_EVERY = 0)
    IN  log \o [j \in 1..Len(counts) |->
                  [fraction |-> Frac(tables_done * total_rows + counts[j], n * total_rows),
                   message |-> "rows",
                   idx |-> tables_done + 1]]

----------------------------------------------------------------------------
(* GUI *)

\* Line 382: state the button gets from refresh_status.
RefreshedBtn == IF creds THEN "normal" ELSE "disabled"

NotResolved == [table |-> "", columns |-> <<>>]

IdleThread ==
    [pc |-> "idle", selected_tables |-> <<>>, tables_done |-> 0,
     mysql_conn |-> "none", sqlite_conn |-> "none", db_path |-> local_db_path,
     total_rows |-> 0, columns |-> <<>>, cursor |-> <<>>, rows_inserted |-> 0,
     \* history of the run: progress_callback invocations, tables handed to
     \* export_table, total_rows of each, rows committed per table, how it ended
     log |-> <<>>, exported |-> {}, totals |-> <<>>,
     committed |-> [t \in Tables |-> <<>>], outcome |-> "none"]

\* Source contents of the export runs: MaxRows rows, split over the two tables.
SourceFamily ==
    {[t \in Tables |-> SourceTable(t, f[t])] :
        f \in {g \in [Tables -> 0..MaxRows] : g["contacts"] + g["remove_contacts"] = MaxRows}}

\* table_fields.json of the export runs: an allow-list for contacts (reordered,
\* with an entry the table does not have), none for remove_contacts.
ConfiguredFields == [t \in {"contacts"} |-> <<"name", "missing", "id">>]

Init ==
    /\ creds \in BOOLEAN
    /\ TABLE_FIELDS = ConfiguredFields
    /\ mysql \in SourceFamily
    /\ schema = SourceColumns
    /\ sqlite = [p \in Paths |-> [t \in Tables |-> NoTable]]
    /\ run_btn = RefreshedBtn
    /\ selected_db_path = local_db_path
    /\ table_vars = [t \in Tables |-> TRUE]
    /\ thread = [w \in Threads |-> IdleThread]
    /\ resolved = NotResolved

config_unchanged == UNCHANGED <<creds, TABLE_FIELDS, mysql, schema, resolved>>

\* refresh_status (the Refresh button)
refresh_status ==
    /\ run_btn' = RefreshedBtn
    /\ UNCHANGED <<selected_db_path, table_vars, thread, sqlite>>
    /\ config_unchanged

\* choose_output_file: the dialog returns a path, or nothing when cancelled
choose_output_file ==
    /\ \/ \E path \in Paths :
            /\ selected_db_path' = path
            /\ run_btn' = RefreshedBtn
       \/ UNCHANGED <<selected_db_path, run_btn>>
    /\ UNCHANGED <<table_vars, thread, sqlite>>
    /\ config_unchanged

\* A click on the checkbox of table t
toggle_table(t) ==
    /\ table_vars' = [table_vars EXCEPT ![t] = ~@]
    /\ UNCHANGED <<run_btn, selected_db_path, thread, sqlite>>
    /\ config_unchanged

\* start_export (a click on START EXPORT, which Tk delivers only while the
\* button is not disabled): the user answers the askyesno dialog with yes or
\* no.  The new thread takes the least unused id.
start_export(w) ==
    /\ run_btn = "normal"
    /\ thread[w].pc = "idle"
    /\ \A v \in Threads : v < w => thread[v].pc # "idle"
    /\ \/ /\ run_btn' = "disabled"
          /\ thread' = [thread EXCEPT ![w].pc = "gather"]
       \/ UNCHANGED <<run_btn, thread>>
    /\ UNCHANGED <<selected_db_path, table_vars, sqlite>>
    /\ config_unchanged

----------------------------------------------------------------------------
(* _export_worker, one action per step of the thread *)

Selected == SelectSeq(TABLES_TO_EXPORT, LAMBDA t : table_vars[t])

\* The position the worker moves to when a table is done (line 456).
NextTable(th) ==
    [th EXCEPT !.tables_done = @ + 1,
               !.pc = IF th.tables_done + 1 < Len(th.selected_tables)
                      THEN "table" ELSE "finish"]

\* Lines 473-486: the except and finally clauses of the table loop.
ExportFailed(th, outcome) ==
    [th EXCEPT !.sqlite_conn = "closed",
               !.mysql_conn = "closed",
               !.log = progress_callback(th.log, Frac(0, 1), "failed", th.tables_done + 1),
               !.pc = "done",
               !.outcome = outcome]

\* Lines 419-423
gather(w) ==
    /\ thread[w].pc = "gather"
    /\ IF Selected = <<>>
       THEN /\ run_btn' = "normal"
            /\ thread' = [thread EXCEPT ![w].pc = "done", ![w].outcome = "no_tables"]
       ELSE /\ UNCHANGED run_btn
            /\ thread' = [thread EXCEPT ![w].pc = "connect",
                                        ![w].selected_tables = Selected]
    /\ UNCHANGED <<selected_db_path, table_vars, sqlite>>
    /\ config_unchanged

\* Lines 425-433
connect_mysql(w) ==
    LET th == thread[w]
        log1 == progress_callback(th.log, Frac(2, 100), "connecting", 0)
    IN  /\ th.pc = "connect"
        /\ \/ /\ thread' = [thread EXCEPT ![w] =
                     [th EXCEPT !.log = log1, !.mysql_conn = "open", !.pc = "open"]]
              /\ UNCHANGED run_btn
           \/ /\ thread' = [thread EXCEPT ![w] =
                     [th EXCEPT !.log = progress_callback(log1, Frac(0, 1), "connection_failed", 0),
                                !.pc = "done", !.outcome = "connect_failed"]]
              /\ run_btn' = "normal"
        /\ UNCHANGED <<selected_db_path, table_vars, sqlite>>
        /\ config_unchanged

\* Lines 435-444
open_sqlite(w) ==
    LET th == thread[w]
    IN  /\ th.pc = "open"
        /\ \/ /\ thread' = [thread EXCEPT ![w] =
                     [th EXCEPT !.sqlite_conn = "open", !.db_path = selected_db_path,
                                !.pc = "table"]]
              /\ UNCHANGED run_btn
           \/ \* sqlite3.connect raises
              /\ thread' = [thread EXCEPT ![w] =
                     [th EXCEPT !.mysql_conn = "closed", !.pc = "done",
                                !.outcome = "open_failed"]]
              /\ run_btn' = "normal"
           \/ \* a PRAGMA raises on the connection just opened
              /\ thread' = [thread EXCEPT ![w] =
                     [th EXCEPT !.sqlite_conn = "open", !.db_path = selected_db_path,
                                !.mysql_conn = "closed", !.pc = "done",
                                !.outcome = "pragma_failed"]]
              /\ run_btn' = "normal"
        /\ UNCHANGED <<selected_db_path, table_vars, sqlite>>
        /\ config_unchanged

\* Lines 452-455 and export_table up to the page loop (lines 156-191)
begin_table(w) ==
    LET th == thread[w]
        n == Len(th.selected_tables)
        idx == th.tables_done + 1
        table == th.selected_tables[idx]
        th1 == [th EXCEPT !.log = progress_callback(th.log, Frac(th.tables_done, n), "preparing", idx),
                          !.exported = @ \cup {table}]
        columns == get_table_columns(table)
        db == sqlite[th.db_path]
    IN  /\ th.pc = "table"
        /\ \/ \* SHOW COLUMNS or DROP TABLE raises
              /\ thread' = [thread EXCEPT ![w] = ExportFailed(th1, "columns_failed")]
              /\ run_btn' = RefreshedBtn
              /\ UNCHANGED sqlite
           \/ \* CREATE TABLE raises (always, when no column is left)
              /\ thread' = [thread EXCEPT ![w] = ExportFailed(th1, "create_failed")]
              /\ run_btn' = RefreshedBtn
              /\ sqlite' = [sqlite EXCEPT ![th.db_path] = DropTable(db, table)]
           \/ /\ columns # <<>>
              /\ sqlite' = [sqlite EXCEPT ![th.db_path] = recreate_sqlite_table(db, table, columns)]
              /\ \E count_ok \in BOOLEAN :
                   LET total_rows == IF count_ok THEN fetch_table_count(table) ELSE 0
                   IN  IF total_rows = 0
                       THEN /\ thread' = [thread EXCEPT ![w] = NextTable(
                                   [th1 EXCEPT !.total_rows = 0, !.columns = columns,
                                               !.totals = Append(@, 0),
                                               !.committed[table] = <<>>,
                                               !.log = ZeroRowsNotify(th1.log, th.tables_done, n)])]
                            /\ UNCHANGED run_btn
                       ELSE \/ /\ thread' = [thread EXCEPT ![w] =
                                      [th1 EXCEPT !.total_rows = total_rows, !.columns = columns,
                                                  !.totals = Append(@, total_rows),
                                                  !.committed[table] = <<>>,
                                                  !.cursor = SelectRows(table, columns),
                                                  !.rows_inserted = 0, !.pc = "page"]]
                               /\ UNCHANGED run_btn
                            \/ \* the SELECT raises
                               /\ thread' = [thread EXCEPT ![w] = ExportFailed(
                                      [th1 EXCEPT !.total_rows = total_rows, !.columns = columns,
                                                  !.totals = Append(@, total_rows),
                                                  !.committed[table] = <<>>],
                                      "select_failed")]
                               /\ run_btn' = RefreshedBtn
        /\ UNCHANGED <<selected_db_path, table_vars>>
        /\ config_unchanged

\* One iteration of the page loop (lines 193-213), or its exit (lines 195-196, 216)
export_page(w) ==
    LET th == thread[w]
        n == Len(th.selected_tables)
        table == th.selected_tables[th.tables_done + 1]
        m == IF Len(th.cursor) < CHUNK_SIZE THEN Len(th.cursor) ELSE CHUNK_SIZE
        rows == SubSeq(th.cursor, 1, m)
        batch == ConvertBatch(rows)
        db == sqlite[th.db_path]
    IN  /\ th.pc = "page"
        /\ IF rows = <<>>
           THEN /\ thread' = [thread EXCEPT ![w] = NextTable(th)]
                /\ UNCHANGED <<run_btn, sqlite>>
           ELSE \/ /\ db[table].exists
                   /\ sqlite' = [sqlite EXCEPT ![th.db_path] = InsertBatch(db, table, batch)]
                   /\ thread' = [thread EXCEPT ![w] =
                          [th EXCEPT !.cursor = SubSeq(th.cursor, m + 1, Len(th.cursor)),
                                     !.rows_inserted = @ + m,
                                     !.committed[table] = @ \o batch,
                                     !.log = RowProgress(th.log, th.rows_inserted, m,
                                                         th.total_rows, th.tables_done, n)]]
                   /\ UNCHANGED run_btn
                \/ \* executemany or commit raises: nothing of the page is committed
                   /\ thread' = [thread EXCEPT ![w] = ExportFailed(th, "write_failed")]
                   /\ run_btn' = RefreshedBtn
                   /\ UNCHANGED sqlite
        /\ UNCHANGED <<selected_db_path, table_vars>>
        /\ config_unchanged

\* Lines 457-462 and the finally clause (lines 484-486)
finish_export(w) ==
    LET th == thread[w]
    IN  /\ th.pc = "finish"
        /\ thread' = [thread EXCEPT ![w] =
               [th EXCEPT !.sqlite_conn = "closed", !.mysql_conn = "closed",
                          !.log = CompleteNotify(th.log),
                          !.pc = "done", !.outcome = "success"]]
        /\ run_btn' = RefreshedBtn
        /\ UNCHANGED <<selected_db_path, table_vars, sqlite>>
        /\ config_unchanged

Next ==
    \/ refresh_status
    \/ choose_output_file
    \/ \E t \in Tables : toggle_table(t)
    \/ \E w \in Threads : start_export(w)
    \/ \E w \in Threads : gather(w)
    \/ \E w \in Threads : connect_mysql(w)
    \/ \E w \in Threads : open_sqlite(w)
    \/ \E w \in Threads : begin_table(w)
    \/ \E w \in Threads : export_page(w)
    \/ \E w \in Threads : finish_export(w)

Spec == Init /\ [][Next]_vars

----------------------------------------------------------------------------
(* Column resolution on its own: get_table_columns applied to bounded      *)
(* schemas and allow-lists.                                                *)

ColumnNames == {"id", "name", "extra"}

SeqsUpTo(S, n) == UNION {[1..k -> S] : k \in 0..n}

\* SHOW COLUMNS never names a column twice.
Schemas ==
    {q \in SeqsUpTo(ColumnNames, MaxColumns) :
        \A i, j \in 1..Len(q) : q[i] = q[j] => i = j}

InitColumns ==
    /\ creds = FALSE
    /\ TABLE_FIELDS \in UNION {[D -> SeqsUpTo(ColumnNames, MaxColumns)] : D \in SUBSET {"contacts"}}
    /\ schema \in [Tables -> Schemas]
    /\ mysql = [t \in Tables |-> <<>>]
    /\ sqlite = [p \in Paths |-> [t \in Tables |-> NoTable]]
    /\ run_btn = RefreshedBtn
    /\ selected_db_path = local_db_path
    /\ table_vars = [t \in Tables |-> TRUE]
    /\ thread = [w \in Threads |-> IdleThread]
    /\ resolved = NotResolved

\* A call get_table_columns(mysql_conn, table)
resolve_columns(table) ==
    /\ resolved' = [table |-> table, columns |-> get_table_columns(table)]
    /\ UNCHANGED <<creds, TABLE_FIELDS, mysql, schema, sqlite, run_btn,
                   selected_db_path, table_vars, thread>>

NextColumns == \E t \in Tables : resolve_columns(t)

SpecColumns == InitColumns /\ [][NextColumns]_vars

----------------------------------------------------------------------------
(* Properties *)

Running(w) == thread[w].pc \notin {"idle", "done"}

Last(q) == q[Len(q)]

\* The progress updates a run made while table number j of its list was
\* being processed.
TableUpdates(th, j) == SelectSeq(th.log, LAMBDA e : e.idx = j)

\* What the filtered SELECT of a table yields, as the destination stores it.
ExpectedRows(table) == ConvertBatch(SelectRows(table, get_table_columns(table)))

\* C1: while a worker is in flight the START EXPORT button is disabled, and
\* so at most one worker is in flight.
C1_OneRunInFlight ==
    /\ \A w \in Threads : Running(w) => run_btn = "disabled"
    /\ Cardinality({w \in Threads : Running(w)}) <= 1

\* C2: when a run completes successfully, every table it exported holds in
\* the destination exactly the rows of the filtered source SELECT, in order,
\* whatever the count query returned.
C2_DestinationMatchesSource ==
    [][\A w \in Threads :
          (thread[w].outcome = "none" /\ thread'[w].outcome = "success")
          => \A i \in 1..Len(thread'[w].selected_tables) :
               LET table == thread'[w].selected_tables[i]
                   dest == sqlite'[thread'[w].db_path][table]
               IN  dest.exists /\ dest.rows = ExpectedRows(table)]_vars

\* C3: when the write of page k >= 2 of a table fails, the destination still
\* holds the k-1 pages the run committed for that table and all rows it
\* committed for the earlier tables, the run's last update is the failure
\* message, and no later table of the list was handed to export_table.
C3_WriteFailureKeepsCommitted ==
    [][\A w \in Threads :
          (/\ thread[w].outcome = "none"
           /\ thread'[w].outcome = "write_failed"
           /\ thread[w].rows_inserted >= CHUNK_SIZE)
          => LET th == thread'[w]
                 idx == th.tables_done + 1
                 dest == sqlite'[th.db_path]
             IN  /\ Len(th.committed[th.selected_tables[idx]]) = thread[w].rows_inserted
                 /\ \A i \in 1..idx :
                      /\ dest[th.selected_tables[i]].exists
                      /\ dest[th.selected_tables[i]].rows = th.committed[th.selected_tables[i]]
                 /\ Last(th.log).message = "failed"
                 /\ \A i \in (idx + 1)..Len(th.selected_tables) :
                      th.selected_tables[i] \notin th.exported]_vars

\* C4: for every table with at least one row that a run has finished, the run
\* emitted an update for that table with fraction offset + weight.
C4_TableReachesFullWeight ==
    \A w \in Threads :
      LET th == thread[w]
          n == Len(th.selected_tables)
      IN  \A j \in 1..th.tables_done :
            Len(mysql[th.selected_tables[j]]) >= 1
            => \E k \in 1..Len(th.log) :
                 /\ th.log[k].idx = j
                 /\ FracEq(th.log[k].fraction, Frac(j, n))

\* C5 as stated: a finished table whose count was 0 has exactly one update,
\* and it is at offset + weight.
C5_ZeroRowsOneUpdate ==
    \A w \in Threads :
      LET th == thread[w]
          n == Len(th.selected_tables)
      IN  \A j \in 1..th.tables_done :
            th.totals[j] = 0
            => /\ Len(TableUpdates(th, j)) = 1
               /\ FracEq(TableUpdates(th, j)[1].fraction, Frac(j, n))

\* C5 amended: a finished table whose count was 0 (or failed) has exactly two
\* updates: "Preparing to export" at offset, made by the worker, then the
\* single update of export_table, "(0 rows)" at offset + weight.
C5_ZeroRowsTwoUpdates ==
    \A w \in Threads :
      LET th == thread[w]
          n == Len(th.selected_tables)
      IN  \A j \in 1..th.tables_done :
            th.totals[j] = 0
            => LET u == TableUpdates(th, j)
               IN  /\ Len(u) = 2
                   /\ u[1].message = "preparing"
                   /\ FracEq(u[1].fraction, Frac(j - 1, n))
                   /\ u[2].message = "zero_rows"
                   /\ FracEq(u[2].fraction, Frac(j, n))

\* C5 witness: a run finished a table of its list, not the first, whose
\* count was 0, and went on.
C5_Witness ==
    \E w \in Threads :
      /\ thread[w].tables_done >= 2
      /\ thread[w].totals[2] = 0
      /\ thread[w].outcome = "success"

\* C6: when a worker has returned, no connection it opened is still open.
C6_ConnectionsClosed ==
    \A w \in Threads :
      thread[w].pc = "done"
      => thread[w].mysql_conn # "open" /\ thread[w].sqlite_conn # "open"

\* The entries of allowed that occur in all_columns, in the order of allowed:
\* result[k] is the k-th such entry.
KeptInOrder(allowed, all_columns, result) ==
    LET occurs(c) == \E i \in 1..Len(all_columns) : all_columns[i] = c
        kept == {i \in 1..Len(allowed) : occurs(allowed[i])}
    IN  /\ Len(result) = Cardinality(kept)
        /\ \A k \in 1..Len(result) :
             \E i \in kept :
               /\ Cardinality({j \in kept : j <= i}) = k
               /\ result[k] = allowed[i]

\* C7: get_table_columns returns the allow-list entries that occur among the
\* discovered columns, in allow-list order, when the table has an allow-list,
\* and the discovered columns unchanged when it has none.
C7_ColumnResolution ==
    resolved.table # ""
    => IF resolved.table \in DOMAIN TABLE_FIELDS
       THEN KeptInOrder(TABLE_FIELDS[resolved.table], schema[resolved.table], resolved.columns)
       ELSE resolved.columns = schema[resolved.table]

\* C7 witness: an allow-list whose two entries both occur in the table, in the
\* opposite of the source's order, has been resolved.
C7_Witness ==
    /\ resolved.table \in DOMAIN TABLE_FIELDS
    /\ Len(resolved.columns) = 2
    /\ Len(schema[resolved.table]) = 2
    /\ resolved.columns[1] = schema[resolved.table][2]
    /\ resolved.columns[2] = schema[resolved.table][1]

C10_FractionsNonDecreasing ==
    \A w \in Threads :
      thread[w].outcome \in {"none", "success"}
      => \A k \in 1..(Len(thread[w].log) - 1) :
           FracLE(thread[w].log[k].fraction, thread[w].log[k + 1].fraction)

====
